---- MODULE Spec2Model ----
(***************************************************************************)
(* A model of shell.ts of deno_sqlite_shell: the literal formatter         *)
(* (formatParam), the parameter binder (bindParams, bindPositional,        *)
(* bindNamed, paramReplacer) and the Shell session that drives one sqlite3 *)
(* child process over its piped stdin/stdout (create, queryRaw, query,      *)
(* queryAll, execute, close).                                              *)
(*                                                                         *)
(* Text is modelled as a sequence of one-character strings, so that the    *)
(* regular-expression scans and the slices of the code are computed        *)
(* character by character.                                                 *)
(***************************************************************************)
EXTENDS Integers, Sequences, FiniteSets, TLC

VARIABLES
    executing,  \* Shell.executing, the busy flag
    pc,         \* per call: where its queryRaw generator stands
    kind,       \* per call: the method the caller used
    outcome,    \* per call: how the call ended
    nread,      \* per call: the local counter i of queryRaw
    lines,      \* per call: the lines its queryRaw took from the child's output
    frags,      \* per call: the fragments its queryRaw yielded
    own,        \* per call: the output the child produced for its statement
    stdin,      \* frames written to the child (with the call and request they
                \* come from) and not yet executed by it
    stdout,     \* lines the child has written and nobody has read yet
    shell,      \* Shell.create: where it stands, and the error it threw
    closer,     \* Shell.close: where it stands, and the error it threw
    process,    \* the Deno.Process handle: the two pipes and the exit code
    ops,        \* the operations made on the handle's resources, in order
    fparam,     \* formatter run: the parameter
    fres,       \* formatter run: the result
    btext,      \* binder run: the template
    bparams,    \* binder run: the parameter set
    bres        \* binder run: the result

sessionVars == <<executing, pc, kind, outcome, nread, lines, frags, own, stdin, stdout>>
formatVars == <<fparam, fres>>
bindVars == <<btext, bparams, bres>>
lifeVars == <<shell, closer, process, ops>>
vars == <<sessionVars, formatVars, bindVars, lifeVars>>

-----------------------------------------------------------------------------
(* Text helpers *)

Quote == "'"

RECURSIVE Concat(_)
Concat(ss) == IF ss = <<>> THEN <<>> ELSE Head(ss) \o Concat(Tail(ss))

\* The characters \w of a JavaScript regular expression matches.
WordChars ==
    {"a","b","c","d","e","f","g","h","i","j","k","l","m","n","o","p","q","r","s","t","u","v","w","x","y","z",
     "A","B","C","D","E","F","G","H","I","J","K","L","M","N","O","P","Q","R","S","T","U","V","W","X","Y","Z",
     "0","1","2","3","4","5","6","7","8","9","_"}

\* The sigils of bindNamed's regular expression, [@:$].
Sigils == {"@", ":", "$"}

DecDigits == <<"0","1","2","3","4","5","6","7","8","9">>
HexDigits == <<"0","1","2","3","4","5","6","7","8","9","a","b","c","d","e","f">>

-----------------------------------------------------------------------------
(* Parameter values: the union Parameter of shell.ts, tagged by what       *)
(* typeof / instanceof report.                                             *)

Null == [t |-> "null"]
Undefined == [t |-> "undefined"]
Bool(b) == [t |-> "boolean", v |-> b]
Num(n) == [t |-> "number", v |-> n]
Str(s) == [t |-> "string", v |-> s]
Bytes(b) == [t |-> "Uint8Array", v |-> b]
\* What a property lookup finds on Object.prototype (a function or an object).
Inherited == [t |-> "function"]

\* Number.prototype.toString of a non-negative integer.
RECURSIVE natToString(_)
natToString(n) ==
    IF n < 10 THEN <<DecDigits[n + 1]>>
    ELSE natToString(n \div 10) \o <<DecDigits[(n % 10) + 1]>>

\* Variant of toString that loses the sign of a negative number.
toStringMutNoSign(p) ==
    IF p.t = "boolean"
    THEN (IF p.v THEN <<"t","r","u","e">> ELSE <<"f","a","l","s","e">>)
    ELSE natToString(IF p.v < 0 THEN -p.v ELSE p.v)

\* param.toString() of a number (integers only) or a boolean.
toString(p) ==
    IF p.t = "boolean"
    THEN (IF p.v THEN <<"t","r","u","e">> ELSE <<"f","a","l","s","e">>)
    ELSE IF p.v < 0 THEN <<"-">> \o natToString(-p.v) ELSE natToString(p.v)

\* encodeToString of std/encoding/hex.ts: two lowercase digits per byte.
RECURSIVE toHex(_)
toHex(b) ==
    IF b = <<>> THEN <<>>
    ELSE <<HexDigits[(Head(b) \div 16) + 1], HexDigits[(Head(b) % 16) + 1]>> \o toHex(Tail(b))

\* param.replace(/'/g, "''")
RECURSIVE replaceQuotes(_)
replaceQuotes(s) ==
    IF s = <<>> THEN <<>>
    ELSE (IF Head(s) = Quote THEN <<Quote, Quote>> ELSE <<Head(s)>>) \o replaceQuotes(Tail(s))

\* Variant of formatParam that does not double the quotes of a text.
formatParamMutNoEscape(param) ==
    CASE param.t = "string" -> <<Quote>> \o param.v \o <<Quote>>
      [] param.t \in {"number", "boolean"} -> toString(param)
      [] param.t = "Uint8Array" -> <<"x", Quote>> \o toHex(param.v) \o <<Quote>>
      [] OTHER -> <<"N","U","L","L">>

\* formatParam: the SQL literal of a parameter, by typeof and instanceof.
formatParam(param) ==
    CASE param.t = "string" -> <<Quote>> \o replaceQuotes(param.v) \o <<Quote>>
      [] param.t \in {"number", "boolean"} -> toString(param)
      [] param.t = "Uint8Array" -> <<"x", Quote>> \o toHex(param.v) \o <<Quote>>
      [] OTHER -> <<"N","U","L","L">>

-----------------------------------------------------------------------------
(* The parameter binder *)

\* A parameter set: undefined (none given), an array or a plain object.
NoParams == [t |-> "undefined"]
Arr(items) == [t |-> "array", items |-> items]
Obj(props) == [t |-> "object", props |-> props]

Ok(text) == [thrown |-> FALSE, text |-> text]
Throw(msg, arg) == [thrown |-> TRUE, error |-> [msg |-> msg, arg |-> arg]]

\* Variant of paramReplacer that never toggles inQuote.
paramReplacerMutNoToggle(inQuote, match) ==
    [inQuote |-> inQuote, fetch |-> match # <<Quote>>]

\* The replacer paramReplacer returns, as a step of its closure state: the
\* new inQuote, and whether this match is replaced by
\* formatParam(paramFetcher(match)) instead of being returned unchanged.
paramReplacer(inQuote, match) ==
    IF match = <<Quote>> THEN [inQuote |-> ~inQuote, fetch |-> FALSE]
    ELSE IF inQuote THEN [inQuote |-> inQuote, fetch |-> FALSE]
    ELSE [inQuote |-> inQuote, fetch |-> TRUE]

\* Variant of replacePositional in which the quotes of a substituted text
\* value toggle inQuote.
RECURSIVE replacePositionalMutValueQuotes(_, _, _, _)
replacePositionalMutValueQuotes(rest, params, inQuote, idx) ==
    IF rest = <<>> THEN [thrown |-> FALSE, text |-> <<>>, idx |-> idx]
    ELSE IF Head(rest) \in {Quote, "?"}
    THEN LET r == paramReplacer(inQuote, <<Head(rest)>>) IN
         IF r.fetch
         THEN IF idx + 1 > Len(params) \/ params[idx + 1] = Undefined
              THEN Throw("Cannot find parameter with index", natToString(idx))
              ELSE LET v == params[idx + 1]
                       odd == /\ v.t = "string"
                              /\ Cardinality({i \in 1..Len(v.v) : v.v[i] = Quote}) % 2 = 1
                       more == replacePositionalMutValueQuotes(
                                   Tail(rest), params, IF odd THEN ~r.inQuote ELSE r.inQuote, idx + 1)
                   IN
                   IF more.thrown THEN more
                   ELSE [more EXCEPT !.text = formatParam(v) \o @]
         ELSE LET more == replacePositionalMutValueQuotes(Tail(rest), params, r.inQuote, idx) IN
              IF more.thrown THEN more ELSE [more EXCEPT !.text = <<Head(rest)>> \o @]
    ELSE LET more == replacePositionalMutValueQuotes(Tail(rest), params, inQuote, idx) IN
         IF more.thrown THEN more ELSE [more EXCEPT !.text = <<Head(rest)>> \o @]

\* query.replace(/['?]/g, replacer) of bindPositional over the rest of the
\* text, with the closure state (inQuote, idx); the fetcher throws when
\* params[i] is undefined.
RECURSIVE replacePositional(_, _, _, _)
replacePositional(rest, params, inQuote, idx) ==
    IF rest = <<>> THEN [thrown |-> FALSE, text |-> <<>>, idx |-> idx]
    ELSE IF Head(rest) \in {Quote, "?"}
    THEN LET r == paramReplacer(inQuote, <<Head(rest)>>) IN
         IF r.fetch
         THEN IF idx + 1 > Len(params) \/ params[idx + 1] = Undefined
              THEN Throw("Cannot find parameter with index", natToString(idx))
              ELSE LET more == replacePositional(Tail(rest), params, r.inQuote, idx + 1) IN
                   IF more.thrown THEN more
                   ELSE [more EXCEPT !.text = formatParam(params[idx + 1]) \o @]
         ELSE LET more == replacePositional(Tail(rest), params, r.inQuote, idx) IN
              IF more.thrown THEN more ELSE [more EXCEPT !.text = <<Head(rest)>> \o @]
    ELSE LET more == replacePositional(Tail(rest), params, inQuote, idx) IN
         IF more.thrown THEN more ELSE [more EXCEPT !.text = <<Head(rest)>> \o @]

\* Variant of bindPositional whose final check is idx <= params.length.
bindPositionalMutOffByOne(query, params) ==
    LET r == replacePositional(query, params, FALSE, 0) IN
    IF r.thrown THEN r
    ELSE IF r.idx <= Len(params) THEN Throw("Not all parameters were used by", query)
    ELSE Ok(r.text)

\* bindPositional: the scan, then the check that every parameter was used.
bindPositional(query, params) ==
    LET r == replacePositional(query, params, FALSE, 0) IN
    IF r.thrown THEN r
    ELSE IF r.idx <= Len(params) - 1 THEN Throw("Not all parameters were used by", query)
    ELSE Ok(r.text)

\* The names every plain object inherits from Object.prototype.
ObjectPrototypeKeys ==
    {<<"c","o","n","s","t","r","u","c","t","o","r">>,
     <<"h","a","s","O","w","n","P","r","o","p","e","r","t","y">>,
     <<"i","s","P","r","o","t","o","t","y","p","e","O","f">>,
     <<"p","r","o","p","e","r","t","y","I","s","E","n","u","m","e","r","a","b","l","e">>,
     <<"t","o","L","o","c","a","l","e","S","t","r","i","n","g">>,
     <<"t","o","S","t","r","i","n","g">>,
     <<"v","a","l","u","e","O","f">>,
     <<"_","_","p","r","o","t","o","_","_">>,
     <<"_","_","d","e","f","i","n","e","G","e","t","t","e","r","_","_">>,
     <<"_","_","d","e","f","i","n","e","S","e","t","t","e","r","_","_">>,
     <<"_","_","l","o","o","k","u","p","G","e","t","t","e","r","_","_">>,
     <<"_","_","l","o","o","k","u","p","S","e","t","t","e","r","_","_">>}

\* params[key] on a plain object: an own property, else an inherited one,
\* else undefined.
GetProperty(props, key) ==
    IF key \in DOMAIN props THEN props[key]
    ELSE IF key \in ObjectPrototypeKeys THEN Inherited
    ELSE Undefined

\* The longest prefix of s made of \w characters.
RECURSIVE wordRun(_)
wordRun(s) ==
    IF s = <<>> \/ Head(s) \notin WordChars THEN <<>>
    ELSE <<Head(s)>> \o wordRun(Tail(s))

\* The match of /('|[@:$]\w+)/ that starts at the head of s; <<>> if none.
matchNamed(s) ==
    IF Head(s) = Quote THEN <<Quote>>
    ELSE IF Head(s) \in Sigils /\ wordRun(Tail(s)) # <<>> THEN <<Head(s)>> \o wordRun(Tail(s))
    ELSE <<>>

\* query.replace(/('|[@:$]\w+)/g, replacer) of bindNamed over the rest of
\* the text; the fetcher looks up match.slice(1).
RECURSIVE replaceNamed(_, _, _)
replaceNamed(rest, props, inQuote) ==
    IF rest = <<>> THEN Ok(<<>>)
    ELSE LET match == matchNamed(rest) IN
         IF match = <<>>
         THEN LET more == replaceNamed(Tail(rest), props, inQuote) IN
              IF more.thrown THEN more ELSE Ok(<<Head(rest)>> \o more.text)
         ELSE LET r == paramReplacer(inQuote, match)
                  after == SubSeq(rest, Len(match) + 1, Len(rest))
                  key == Tail(match)
              IN
              IF r.fetch
              THEN IF GetProperty(props, key) = Undefined
                   THEN Throw("Cannot find parameter with key", key)
                   ELSE LET more == replaceNamed(after, props, r.inQuote) IN
                        IF more.thrown THEN more
                        ELSE Ok(formatParam(GetProperty(props, key)) \o more.text)
              ELSE LET more == replaceNamed(after, props, r.inQuote) IN
                   IF more.thrown THEN more ELSE Ok(match \o more.text)

bindNamed(query, props) == replaceNamed(query, props, FALSE)

bindParams(query, params) ==
    IF params.t = "array" THEN bindPositional(query, params.items)
    ELSE bindNamed(query, params.props)

-----------------------------------------------------------------------------
(* Bounds and input sets of the formatter and binder runs *)

MaxStrLen == 2
MaxNum == 120
MaxBytesLen == 2
MaxPieces == 3
MaxParams == 2

RECURSIVE SeqsUpTo(_, _)
SeqsUpTo(S, n) ==
    IF n = 0 THEN {<<>>}
    ELSE LET shorter == SeqsUpTo(S, n - 1) IN
         shorter \cup {Append(s, x) : s \in shorter, x \in S}

\* Texts a caller may pass as a string parameter: quotes and
\* placeholder-shaped characters included.
StrAlphabet == {Quote, "a", "?", ":"}
ByteSamples == {0, 10, 171, 255}

\* The pieces templates are put together from: a quote, the placeholders of
\* both modes, a lone sigil, a word character, a space, and a placeholder
\* whose identifier every object inherits.
Pieces ==
    {<<Quote>>, <<"?">>, <<":","a">>, <<":">>, <<"a">>, <<" ">>,
     <<"$","v","a","l","u","e","O","f">>}

\* The templates of shell_test.ts and of the quote-awareness round trip.
TestTemplates ==
    {<<"?", Quote, "?", Quote, "?">>,
     <<Quote, ":", "a", Quote>>,
     <<"c"," ","="," ",Quote,"?",Quote>>,
     <<"c","1"," ","="," ","?"," ","A","N","D"," ","c","2"," ","="," ",Quote,"?",Quote," ","A","N","D"," ","c","3"," ","="," ","?"," ","A","N","D"," ","c","4"," ","="," ","?">>,
     <<"c","1"," ","="," ",":","c","1"," ","A","N","D"," ","c","2"," ","="," ",Quote,":","c","2",Quote," ","A","N","D"," ","c","3"," ","="," ",":","c","3"," ","A","N","D"," ","c","4"," ","="," ",":","c","4">>}

Templates == {Concat(ps) : ps \in SeqsUpTo(Pieces, MaxPieces)} \cup TestTemplates

ArrayValues == {Num(12), Str(<<Quote, "?">>)}
ObjectKeys == {<<"a">>, <<"a","a">>, <<"c","3">>}
ObjectValues == {Null, Str(<<"a", Quote, ":", "a">>)}

ParamSets ==
    {Arr(items) : items \in SeqsUpTo(ArrayValues, MaxParams)}
    \cup {Obj(props) : props \in UNION {[K -> ObjectValues] : K \in SUBSET ObjectKeys}}

-----------------------------------------------------------------------------
(* Runs of the pure functions: one call of formatParam, one of bindParams *)

InitFormat ==
    /\ \/ fparam \in {Null, Bool(TRUE), Bool(FALSE)}
       \/ fparam \in {Num(n) : n \in (0 - MaxNum)..MaxNum}
       \/ fparam \in {Str(s) : s \in SeqsUpTo(StrAlphabet, MaxStrLen)}
       \/ fparam \in {Bytes(b) : b \in SeqsUpTo(ByteSamples, MaxBytesLen)}
    /\ fres = <<>>

CallFormatParam ==
    /\ fres = <<>>
    /\ fres' = <<formatParam(fparam)>>
    /\ UNCHANGED fparam

InitBind ==
    /\ btext \in Templates
    /\ bparams \in ParamSets
    /\ bres = <<>>

CallBindParams ==
    /\ bres = <<>>
    /\ bres' = <<bindParams(btext, bparams)>>
    /\ UNCHANGED <<btext, bparams>>

-----------------------------------------------------------------------------
(* The session: one Shell over one sqlite3 child process *)

NumCalls == 2
MaxRows == 2

Calls == 1..NumCalls
Kinds == {"queryRaw", "query", "queryAll", "execute"}

\* The line that ends a statement's output ('.print *').
Sentinel == <<"*">>

\* Variant of FrameSuffix without the directive that prints the sentinel.
FrameSuffixMutNoPrint == <<";", "\n">>

\* What queryRaw appends to the statement: `${text};\n.print *\n`.
FrameSuffix == <<";", "\n", ".", "p", "r", "i", "n", "t", " ", "*", "\n">>

NoError == [msg |-> "", arg |-> <<>>]
Outcome(how, error) == [how |-> how, error |-> error]

\* The requests callers make: without parameters, with parameters that
\* bind, and with parameters the binder rejects in each of its three ways.
Requests ==
    {[text |-> <<"a">>, params |-> NoParams],
     [text |-> <<"c", "=", "?">>, params |-> Arr(<<Num(12)>>)],
     [text |-> <<"c", "=", "?">>, params |-> Arr(<<>>)],
     [text |-> <<"c">>, params |-> Arr(<<Num(12)>>)],
     [text |-> <<"c", "=", ":", "a">>, params |-> Obj(<<>>)]}

\* The child's output for the statement of call g. In JSON mode a result of
\* n rows is an array printed one element per line; the row object carries
\* the call and the row number, so that every line names its statement.
RowText(g, k) == <<"{", DecDigits[g + 1], DecDigits[k + 1], "}">>
JsonLine(g, k, n) ==
    (IF k = 1 THEN <<"[">> ELSE <<>>) \o RowText(g, k) \o (IF k = n THEN <<"]">> ELSE <<",">>)
JsonLines(g, n) == [k \in 1..n |-> JsonLine(g, k, n)]
\* Output that is no JSON array (a dot-command's text, then an empty line).
RawLines(g) == << <<"o", "k", DecDigits[g + 1]>>, <<>> >>
\* The output of a query followed by a dot-command in one call: a result of
\* one row, then text.
MixedLines(g) == <<JsonLine(g, 1, 1), <<"o", "k", DecDigits[g + 1]>> >>
Outputs(g) == {JsonLines(g, n) : n \in 0..MaxRows} \cup {RawLines(g), MixedLines(g)}

\* JSON.parse on the texts of this model: a row object parses, nothing else.
JSONParses(json) ==
    /\ Len(json) >= 2
    /\ json[1] = "{"
    /\ json[Len(json)] = "}"
    /\ \A i \in 2..(Len(json) - 1) : json[i] \in {DecDigits[d] : d \in 1..10}

\* Variant of the busy check that never rejects.
alreadyExecutingMutNoCheck(flag) == FALSE

\* `if (this.executing)`: the busy check of queryRaw.
alreadyExecuting(flag) == flag

\* Variant of rowStart that never skips the opening bracket.
rowStartMutNever(i) == 0

\* `i++ === 0 ? 1 : 0`: the opening bracket is skipped on the first line.
rowStart(i) == IF i = 0 THEN 1 ELSE 0

\* Variant of slice that keeps the last character.
sliceMutKeepLast(line, start) == SubSeq(line, start + 1, Len(line))

\* line.slice(start, -1): from start up to, not including, the last character.
slice(line, start) == SubSeq(line, start + 1, Len(line) - 1)

\* No call has been made, nothing has been written to the child.
InitCalls ==
    /\ executing = FALSE
    /\ pc = [g \in Calls |-> "new"]
    /\ kind = [g \in Calls |-> "none"]
    /\ outcome = [g \in Calls |-> Outcome("none", NoError)]
    /\ nread = [g \in Calls |-> 0]
    /\ lines = [g \in Calls |-> <<>>]
    /\ frags = [g \in Calls |-> <<>>]
    /\ own = [g \in Calls |-> <<>>]
    /\ stdin = <<>>

\* The session after create: the startup sentinel has been read.
InitSession == InitCalls /\ stdout = <<>>

\* The session Shell.create returned: both pipes open, the child running,
\* close() not called.
Created ==
    /\ shell = [pc |-> "created", error |-> NoError]
    /\ closer = [pc |-> "none", error |-> NoError]
    /\ process = [stdin |-> "open", stdout |-> "open", exited |-> FALSE, code |-> 0]
    /\ ops = <<>>

\* No run of the formatter, of the binder.
NoFormat == fparam = Null /\ fres = <<>>
NoBind == btext = <<>> /\ bparams = NoParams /\ bres = <<>>

Init == InitSession /\ Created /\ NoFormat /\ NoBind

\* readLines(this.process.stdout) makes a new buffered reader on every call
\* of queryRaw. When the loop is left the reader is dropped with whatever it
\* had taken from the pipe beyond the last line handed out: any number of
\* the lines then available. What is left of the child's output:
Remaining(rest) == {SubSeq(rest, k + 1, Len(rest)) : k \in 0..Len(rest)}

\* this.process.stdin.write(bytes), whose promise queryRaw does not await:
\* the frame reaches the child if the input pipe is open and the child runs.
write(frame) ==
    IF process.stdin = "open" /\ ~process.exited THEN Append(stdin, frame) ELSE stdin

\* Variant of queryRaw with the busy check inside the try block, so that a
\* rejected call runs the finally block too.
queryRawMutCheckInTry(g, k, r) ==
    /\ shell.pc = "created"
    /\ pc[g] = "new"
    /\ \A h \in Calls : h < g => pc[h] # "new"
    /\ kind' = [kind EXCEPT ![g] = k]
    /\ IF alreadyExecuting(executing)
       THEN /\ pc' = [pc EXCEPT ![g] = "done"]
            /\ outcome' = [outcome EXCEPT ![g] =
                   Outcome("thrown", [msg |-> "Already processing another query", arg |-> <<>>])]
            /\ executing' = FALSE
            /\ UNCHANGED stdin
       ELSE LET bound == IF r.params.t # "undefined"
                         THEN bindParams(r.text, r.params)
                         ELSE Ok(r.text)
            IN
            /\ executing' = TRUE
            /\ IF bound.thrown
               THEN /\ pc' = [pc EXCEPT ![g] = "done"]
                    /\ outcome' = [outcome EXCEPT ![g] = Outcome("thrown", bound.error)]
                    /\ UNCHANGED stdin
               ELSE /\ stdin' = write([call |-> g, request |-> r,
                                        bytes |-> bound.text \o FrameSuffix])
                    /\ pc' = [pc EXCEPT ![g] = "reading"]
                    /\ UNCHANGED outcome
    /\ UNCHANGED <<nread, lines, frags, own, stdout>>

\* The first advance of the generator queryRaw(r.text, r.params) of call g,
\* made through method k: from the busy check to the first await of the
\* read loop. The binder runs after the flag is set and before the try.
\* Calls are numbered in the order they are made.
queryRaw(g, k, r) ==
    /\ shell.pc = "created"
    /\ pc[g] = "new"
    /\ \A h \in Calls : h < g => pc[h] # "new"
    /\ kind' = [kind EXCEPT ![g] = k]
    /\ IF alreadyExecuting(executing)
       THEN /\ pc' = [pc EXCEPT ![g] = "done"]
            /\ outcome' = [outcome EXCEPT ![g] =
                   Outcome("thrown", [msg |-> "Already processing another query", arg |-> <<>>])]
            /\ UNCHANGED <<executing, stdin>>
       ELSE LET bound == IF r.params.t # "undefined"
                         THEN bindParams(r.text, r.params)
                         ELSE Ok(r.text)
            IN
            /\ executing' = TRUE
            /\ IF bound.thrown
               THEN /\ pc' = [pc EXCEPT ![g] = "done"]
                    /\ outcome' = [outcome EXCEPT ![g] = Outcome("thrown", bound.error)]
                    /\ UNCHANGED stdin
               ELSE /\ stdin' = write([call |-> g, request |-> r,
                                        bytes |-> bound.text \o FrameSuffix])
                    /\ pc' = [pc EXCEPT ![g] = "reading"]
                    /\ UNCHANGED outcome
    /\ UNCHANGED <<nread, lines, frags, own, stdout>>

\* The dot-command that makes the shell exit with a code: '.exit N'.
ExitPrefix == <<".", "e", "x", "i", "t", " ">>
IsExit(text) ==
    /\ Len(text) = Len(ExitPrefix) + 1
    /\ SubSeq(text, 1, Len(ExitPrefix)) = ExitPrefix
    /\ \E d \in 1..10 : DecDigits[d] = text[Len(text)]
ExitCode(text) == (CHOOSE d \in 1..10 : DecDigits[d] = text[Len(text)]) - 1

\* The child executes the next frame: its output, then the sentinel.
ChildExec ==
    /\ stdin # <<>>
    /\ ~process.exited
    /\ process.stdout = "open"
    /\ ~IsExit(Head(stdin).request.text)
    /\ \E out \in Outputs(Head(stdin).call) :
          /\ stdout' = stdout \o out \o <<Sentinel>>
          /\ own' = [own EXCEPT ![Head(stdin).call] = out]
    /\ stdin' = Tail(stdin)
    /\ UNCHANGED <<executing, pc, kind, outcome, nread, lines, frags>>

\* One turn of `for await (const line of readLines(stdout))` in queryRaw:
\* the sentinel ends the loop and the finally block resets the flag; any
\* other line is sliced and yielded.
ReadLine(g) ==
    /\ pc[g] = "reading"
    /\ process.stdout = "open"
    /\ stdout # <<>>
    /\ IF Head(stdout) = Sentinel
       THEN /\ stdout' \in Remaining(Tail(stdout))
            /\ executing' = FALSE
            /\ pc' = [pc EXCEPT ![g] = "done"]
            /\ outcome' = [outcome EXCEPT ![g] = Outcome("returned", NoError)]
            /\ UNCHANGED <<nread, lines, frags>>
       ELSE /\ stdout' = Tail(stdout)
            /\ nread' = [nread EXCEPT ![g] = @ + 1]
            /\ lines' = [lines EXCEPT ![g] = Append(@, Head(stdout))]
            /\ frags' = [frags EXCEPT ![g] = Append(@, slice(Head(stdout), rowStart(nread[g])))]
            /\ pc' = [pc EXCEPT ![g] = "yielded"]
            /\ UNCHANGED <<executing, outcome>>
    /\ UNCHANGED <<kind, own, stdin>>

\* Whether the consumer of call g can take the fragment just yielded:
\* query and queryAll decode it first.
Decodes(g) == kind[g] \in {"query", "queryAll"} => JSONParses(frags[g][Len(frags[g])])

\* The consumer asks for the next fragment (execute and queryAll always do).
Resume(g) ==
    /\ pc[g] = "yielded"
    /\ Decodes(g)
    /\ pc' = [pc EXCEPT ![g] = "reading"]
    /\ UNCHANGED <<executing, kind, outcome, nread, lines, frags, own, stdin, stdout>>

\* Variant of Abandon without the finally block.
AbandonMutNoFinally(g) ==
    /\ pc[g] = "yielded"
    /\ kind[g] \in {"queryRaw", "query"}
    /\ Decodes(g)
    /\ pc' = [pc EXCEPT ![g] = "done"]
    /\ outcome' = [outcome EXCEPT ![g] = Outcome("abandoned", NoError)]
    /\ stdout' \in Remaining(stdout)
    /\ UNCHANGED <<executing, kind, nread, lines, frags, own, stdin>>

\* The caller of queryRaw or query leaves its loop before the end: the
\* generator is returned at its yield, its reader is dropped and its finally
\* block runs.
Abandon(g) ==
    /\ pc[g] = "yielded"
    /\ kind[g] \in {"queryRaw", "query"}
    /\ Decodes(g)
    /\ executing' = FALSE
    /\ pc' = [pc EXCEPT ![g] = "done"]
    /\ outcome' = [outcome EXCEPT ![g] = Outcome("abandoned", NoError)]
    /\ stdout' \in Remaining(stdout)
    /\ UNCHANGED <<kind, nread, lines, frags, own, stdin>>

\* Variant of DecodeFail in which queryRaw's finally block does not run.
DecodeFailMutNoFinally(g) ==
    /\ pc[g] = "yielded"
    /\ ~Decodes(g)
    /\ pc' = [pc EXCEPT ![g] = "done"]
    /\ outcome' = [outcome EXCEPT ![g] =
           Outcome("thrown", [msg |-> "SyntaxError", arg |-> frags[g][Len(frags[g])]])]
    /\ stdout' \in Remaining(stdout)
    /\ UNCHANGED <<executing, kind, nread, lines, frags, own, stdin>>

\* JSON.parse throws in query: its loop over queryRaw is left, queryRaw's
\* finally block runs, and the error reaches the caller.
DecodeFail(g) ==
    /\ pc[g] = "yielded"
    /\ ~Decodes(g)
    /\ executing' = FALSE
    /\ pc' = [pc EXCEPT ![g] = "done"]
    /\ outcome' = [outcome EXCEPT ![g] =
           Outcome("thrown", [msg |-> "SyntaxError", arg |-> frags[g][Len(frags[g])]])]
    /\ stdout' \in Remaining(stdout)
    /\ UNCHANGED <<kind, nread, lines, frags, own, stdin>>

-----------------------------------------------------------------------------
(* The life of the session: Shell.create, Shell.close, the child's exit *)

\* String.prototype.trim on the texts of this model.
Whitespace == {" ", "\t", "\r"}
RECURSIVE trimStart(_)
trimStart(s) == IF s # <<>> /\ Head(s) \in Whitespace THEN trimStart(Tail(s)) ELSE s
RECURSIVE trimEnd(_)
trimEnd(s) ==
    IF s # <<>> /\ s[Len(s)] \in Whitespace THEN trimEnd(SubSeq(s, 1, Len(s) - 1)) ELSE s
trim(s) == trimEnd(trimStart(s))

\* Variant of started that compares the line as it is.
startedMutExact(line) == line = Sentinel

\* `started = line.trim() === "*"` of create.
started(line) == trim(line) = Sentinel

\* What the child has done by the time create reads: with the default
\* arguments it printed the sentinel ('-cmd ".print *"'); with other
\* arguments (sqliteArgs) it printed the sentinel among other text, another
\* line, or nothing before it exited with a code.
Startups ==
    {[out |-> <<Sentinel>>, exited |-> FALSE, code |-> 0],
     [out |-> << <<" ", "*">> >>, exited |-> FALSE, code |-> 0],
     [out |-> << <<"o", "k">> >>, exited |-> FALSE, code |-> 0],
     [out |-> <<>>, exited |-> TRUE, code |-> 1]}

\* Deno.run of create: the child is spawned with both pipes open.
Spawned ==
    /\ shell = [pc |-> "starting", error |-> NoError]
    /\ closer = [pc |-> "none", error |-> NoError]
    /\ \E s \in Startups :
          /\ stdout = s.out
          /\ process = [stdin |-> "open", stdout |-> "open", exited |-> s.exited, code |-> s.code]
    /\ ops = <<>>

\* create from its read loop on: one line is taken from the child's output
\* (none if the output has ended) and the reader dropped; if the line is not
\* the sentinel both pipes are closed and create awaits the child's exit.
CreateRead ==
    /\ shell.pc = "starting"
    /\ stdout # <<>> \/ process.exited
    /\ IF stdout # <<>> /\ started(Head(stdout))
       THEN /\ shell' = [shell EXCEPT !.pc = "created"]
            /\ stdout' \in Remaining(Tail(stdout))
            /\ UNCHANGED <<process, ops>>
       ELSE /\ shell' = [shell EXCEPT !.pc = "failing"]
            /\ process' = [process EXCEPT !.stdin = "closed", !.stdout = "closed"]
            /\ ops' = ops \o <<"stdin.close", "stdout.close">>
            /\ stdout' = <<>>
    /\ UNCHANGED <<executing, pc, kind, outcome, nread, lines, frags, own, stdin, closer>>

\* create after `await proc.status()`: the handle is released and the error
\* thrown; no Shell is constructed.
CreateFail ==
    /\ shell.pc = "failing"
    /\ process.exited
    /\ ops' = ops \o <<"status", "close">>
    /\ shell' = [pc |-> "failed", error |-> [msg |-> "Sqlite startup failed", arg |-> <<>>]]
    /\ UNCHANGED <<sessionVars, closer, process>>

\* close() up to `await this.process.status()`: both pipes are closed,
\* whatever the session is doing.
CloseBegin ==
    /\ shell.pc = "created"
    /\ closer.pc = "none"
    /\ process' = [process EXCEPT !.stdin = "closed", !.stdout = "closed"]
    /\ ops' = ops \o <<"stdin.close", "stdout.close">>
    /\ closer' = [closer EXCEPT !.pc = "awaiting"]
    /\ stdout' = <<>>
    /\ UNCHANGED <<executing, pc, kind, outcome, nread, lines, frags, own, stdin, shell>>

\* Variant of CloseEnd that throws before it releases the handle.
CloseEndMutThrowFirst ==
    /\ closer.pc = "awaiting"
    /\ process.exited
    /\ ops' = IF process.code # 0 THEN ops \o <<"status">> ELSE ops \o <<"status", "close">>
    /\ closer' = IF process.code # 0
                 THEN [pc |-> "thrown",
                       error |-> [msg |-> "SQLite exited with status:",
                                  arg |-> natToString(process.code)]]
                 ELSE [pc |-> "returned", error |-> NoError]
    /\ UNCHANGED <<sessionVars, shell, process>>

\* close() after the status arrived: the handle is released, and a status
\* code that is not zero is thrown.
CloseEnd ==
    /\ closer.pc = "awaiting"
    /\ process.exited
    /\ ops' = ops \o <<"status", "close">>
    /\ closer' = IF process.code # 0
                 THEN [pc |-> "thrown",
                       error |-> [msg |-> "SQLite exited with status:",
                                  arg |-> natToString(process.code)]]
                 ELSE [pc |-> "returned", error |-> NoError]
    /\ UNCHANGED <<sessionVars, shell, process>>

\* The codes the shell exits with when its input ends.
EndCodes == {0, 1}

\* The child executes a frame that is '.exit N': it exits with N, and the
\* '.print *' of the frame is never executed.
ChildExit ==
    /\ stdin # <<>>
    /\ ~process.exited
    /\ IsExit(Head(stdin).request.text)
    /\ process' = [process EXCEPT !.exited = TRUE, !.code = ExitCode(Head(stdin).request.text)]
    /\ stdin' = <<>>
    /\ UNCHANGED <<executing, pc, kind, outcome, nread, lines, frags, own, stdout,
                   shell, closer, ops>>

\* The child finds its pipes closed: it exits.
ChildEnd ==
    /\ ~process.exited
    /\ process.stdin = "closed"
    /\ \E c \in EndCodes : process' = [process EXCEPT !.exited = TRUE, !.code = c]
    /\ stdin' = <<>>
    /\ UNCHANGED <<executing, pc, kind, outcome, nread, lines, frags, own, stdout,
                   shell, closer, ops>>

\* Variant of ReadEnd in which the finally block does not run.
ReadEndMutNoFinally(g) ==
    /\ pc[g] = "reading"
    /\ process.stdout = "open"
    /\ stdout = <<>>
    /\ process.exited
    /\ pc' = [pc EXCEPT ![g] = "done"]
    /\ outcome' = [outcome EXCEPT ![g] = Outcome("returned", NoError)]
    /\ UNCHANGED <<executing, kind, nread, lines, frags, own, stdin, stdout, lifeVars>>

\* The read loop of queryRaw when the child's output has ended: readLines
\* is done, the loop ends and the finally block runs.
ReadEnd(g) ==
    /\ pc[g] = "reading"
    /\ process.stdout = "open"
    /\ stdout = <<>>
    /\ process.exited
    /\ executing' = FALSE
    /\ pc' = [pc EXCEPT ![g] = "done"]
    /\ outcome' = [outcome EXCEPT ![g] = Outcome("returned", NoError)]
    /\ UNCHANGED <<kind, nread, lines, frags, own, stdin, stdout, lifeVars>>

\* The read loop of queryRaw when the output pipe has been closed: the read
\* fails, the finally block runs and the error reaches the caller.
ReadClosed(g) ==
    /\ pc[g] = "reading"
    /\ process.stdout = "closed"
    /\ executing' = FALSE
    /\ pc' = [pc EXCEPT ![g] = "done"]
    /\ outcome' = [outcome EXCEPT ![g] = Outcome("thrown", [msg |-> "BadResource", arg |-> <<>>])]
    /\ UNCHANGED <<kind, nread, lines, frags, own, stdin, stdout, lifeVars>>

Next ==
    \/ \E g \in Calls, k \in Kinds, r \in Requests :
          queryRaw(g, k, r) /\ UNCHANGED <<formatVars, bindVars, lifeVars>>
    \/ ChildExec /\ UNCHANGED <<formatVars, bindVars, lifeVars>>
    \/ \E g \in Calls : ReadLine(g) /\ UNCHANGED <<formatVars, bindVars, lifeVars>>
    \/ \E g \in Calls : Resume(g) /\ UNCHANGED <<formatVars, bindVars, lifeVars>>
    \/ \E g \in Calls : Abandon(g) /\ UNCHANGED <<formatVars, bindVars, lifeVars>>
    \/ \E g \in Calls : DecodeFail(g) /\ UNCHANGED <<formatVars, bindVars, lifeVars>>

Spec == Init /\ [][Next]_vars

\* One call of formatParam on each parameter of the bounded input set.
InitF == InitSession /\ Created /\ InitFormat /\ NoBind
NextF == CallFormatParam /\ UNCHANGED <<sessionVars, bindVars, lifeVars>>
SpecFormat == InitF /\ [][NextF]_vars

\* One call of bindParams on each template and parameter set of the bounded
\* input sets.
InitB == InitSession /\ Created /\ NoFormat /\ InitBind
NextB == CallBindParams /\ UNCHANGED <<sessionVars, formatVars, lifeVars>>
SpecBind == InitB /\ [][NextB]_vars

\* The requests of the callers of a session followed from create to close:
\* a statement, and the directive that makes the child exit.
LifeRequests ==
    {[text |-> <<"a">>, params |-> NoParams],
     [text |-> ExitPrefix \o <<"1">>, params |-> NoParams]}

\* The methods they call: the generator itself, and the one that drains it.
LifeKinds == {"queryRaw", "execute"}

\* A session from Deno.run to the end of close().
InitLife == InitCalls /\ Spawned /\ NoFormat /\ NoBind
NextLife ==
    \/ CreateRead /\ UNCHANGED <<formatVars, bindVars>>
    \/ CreateFail /\ UNCHANGED <<formatVars, bindVars>>
    \/ \E g \in Calls, k \in LifeKinds, r \in LifeRequests :
          queryRaw(g, k, r) /\ UNCHANGED <<formatVars, bindVars, lifeVars>>
    \/ ChildExec /\ UNCHANGED <<formatVars, bindVars, lifeVars>>
    \/ ChildExit /\ UNCHANGED <<formatVars, bindVars>>
    \/ ChildEnd /\ UNCHANGED <<formatVars, bindVars>>
    \/ \E g \in Calls : ReadLine(g) /\ UNCHANGED <<formatVars, bindVars, lifeVars>>
    \/ \E g \in Calls : ReadEnd(g) /\ UNCHANGED <<formatVars, bindVars>>
    \/ \E g \in Calls : ReadClosed(g) /\ UNCHANGED <<formatVars, bindVars>>
    \/ \E g \in Calls : Resume(g) /\ UNCHANGED <<formatVars, bindVars, lifeVars>>
    \/ \E g \in Calls : Abandon(g) /\ UNCHANGED <<formatVars, bindVars, lifeVars>>
    \/ CloseBegin /\ UNCHANGED <<formatVars, bindVars>>
    \/ CloseEnd /\ UNCHANGED <<formatVars, bindVars>>
SpecLife == InitLife /\ [][NextLife]_vars

\* A read that can complete does: the continuation of a settled promise is
\* run by the event loop.
SpecLifeFair ==
    /\ SpecLife
    /\ \A g \in Calls :
          /\ WF_vars(ReadEnd(g) /\ UNCHANGED <<formatVars, bindVars>>)
          /\ WF_vars(ReadClosed(g) /\ UNCHANGED <<formatVars, bindVars>>)

-----------------------------------------------------------------------------
(* Vocabulary of the claims *)

\* Call g has passed the busy check and has not ended: it is writing its
\* statement or reading the child's output.
InFlight(g) == pc[g] \in {"reading", "yielded"}

AlreadyExecutingMsg == "Already processing another query"
BindingMsgs ==
    {"Cannot find parameter with index", "Cannot find parameter with key",
     "Not all parameters were used by"}

Rejected(g) == pc[g] = "done" /\ outcome[g].error.msg = AlreadyExecutingMsg
BindingFailed(g) == pc[g] = "done" /\ outcome[g].error.msg \in BindingMsgs
Exhausted(g) == pc[g] = "done" /\ outcome[g].how = "returned"
Abandoned(g) == pc[g] = "done" /\ outcome[g].how = "abandoned"

IsPrefix(s, t) == Len(s) <= Len(t) /\ \A i \in 1..Len(s) : s[i] = t[i]

-----------------------------------------------------------------------------
(* C1..C6: the session *)

\* C1: while a call is in flight (started and not yet ended), the first
\* advance of any other call ends at once with 'Already processing another
\* query', changing neither the flag nor the child's input; the step that
\* exhausts a sequence clears the flag, and a call made while the flag is
\* clear is not rejected with that error.
C1_SingleFlightRejection ==
    [][\A g \in Calls :
          /\ (pc[g] = "new" /\ pc'[g] # "new" /\ \E h \in Calls : InFlight(h))
                => /\ pc'[g] = "done"
                   /\ outcome'[g] = Outcome("thrown", [msg |-> AlreadyExecutingMsg, arg |-> <<>>])
                   /\ UNCHANGED <<executing, stdin, stdout>>
          /\ (pc[g] = "reading" /\ pc'[g] = "done" /\ outcome'[g].how = "returned")
                => executing' = FALSE
          /\ (pc[g] = "new" /\ pc'[g] # "new" /\ ~executing)
                => outcome'[g].error.msg # AlreadyExecutingMsg
      ]_vars

\* C1 witness: while call 1, a queryRaw, holds a yielded fragment, call 2,
\* an execute, has been rejected.
C1_Witness ==
    /\ pc[1] = "yielded" /\ kind[1] = "queryRaw" /\ frags[1] # <<>>
    /\ Rejected(2) /\ kind[2] = "execute"

\* C2: in every reachable state at most one call is in flight, and the busy
\* flag is set whenever one is.
C2_SingleFlight ==
    /\ Cardinality({g \in Calls : InFlight(g)}) <= 1
    /\ (\E g \in Calls : InFlight(g)) => executing

\* C2 witness: one call is in flight, its frame written and not yet
\* executed by the child, and the other call has been turned away.
C2_Witness ==
    \E g, h \in Calls :
        pc[g] = "reading" /\ stdin # <<>> /\ Head(stdin).call = g /\ Rejected(h)

\* C3: the step that ends a sequence in flight, by reading the sentinel or
\* by the caller leaving its loop early, clears the busy flag.
C3_ReleaseOnEnd ==
    [][\A g \in Calls :
          (InFlight(g) /\ pc'[g] = "done" /\ outcome'[g].how \in {"returned", "abandoned"})
              => executing' = FALSE
      ]_vars

\* C3 witness: a call was abandoned before its sentinel was read (the
\* child's output still holds it) and a later call was accepted.
C3_Witness ==
    \E g, h \in Calls :
        /\ Abandoned(g) /\ Len(lines[g]) < Len(own[g])
        /\ g < h /\ InFlight(h)

\* C4 (as claimed): a call that ends with an error of the binder leaves the
\* busy flag clear.
C4_BindingFailureLeavesIdle ==
    [][\A g \in Calls :
          (pc[g] = "new" /\ pc'[g] = "done" /\ outcome'[g].error.msg \in BindingMsgs)
              => executing' = FALSE
      ]_vars

\* C5 (as claimed): whether the earlier sequences were exhausted or
\* abandoned early, the lines a call reads are lines of its own statement,
\* in order, and all of them once it has read its sentinel.
C5_OutputIsolation ==
    \A g \in Calls :
        (\A h \in Calls : h < g =>
              (Exhausted(h) \/ Abandoned(h) \/ Rejected(h) \/ BindingFailed(h)))
            => /\ IsPrefix(lines[g], own[g])
               /\ Exhausted(g) => lines[g] = own[g]

\* The fragment the framer makes of the k-th line read: the line without its
\* last character, and on the first line without its first character too.
Fragment(line, k) ==
    IF k = 1
    THEN [i \in 1..(IF Len(line) >= 2 THEN Len(line) - 2 ELSE 0) |-> line[i + 1]]
    ELSE [i \in 1..(IF Len(line) >= 1 THEN Len(line) - 1 ELSE 0) |-> line[i]]

\* Every earlier call either wrote nothing to the child or read the child's
\* output up to the sentinel of its statement.
CleanStream(g) ==
    \A h \in Calls : h < g => (Exhausted(h) \/ Rejected(h) \/ BindingFailed(h))

-----------------------------------------------------------------------------
(* C7..C10: the binder and the formatter, stated position by position *)

\* The number of quote characters before position i of template t.
QuotesBefore(t, i) == Cardinality({j \in 1..(i - 1) : t[j] = Quote})
Outside(t, i) == QuotesBefore(t, i) % 2 = 0

\* The positions of the '?' characters outside quotes, and the 0-based rank
\* of one of them among them.
OpenMarks(t) == {i \in 1..Len(t) : t[i] = "?" /\ Outside(t, i)}
MarkRank(t, i) == Cardinality({j \in OpenMarks(t) : j < i})

\* The template with the k-th '?' outside quotes replaced by
\* formatParam(items[k]).
PositionalExpected(t, items) ==
    Concat([i \in 1..Len(t) |->
               IF i \in OpenMarks(t) THEN formatParam(items[MarkRank(t, i) + 1]) ELSE <<t[i]>>])

BindDone == bres # <<>>

\* C7: with N '?' outside quotes and M parameters, bindParams returns the
\* template with the k-th such '?' replaced by formatParam(params[k]) when
\* M = N, fails with 'Cannot find parameter with index "M"' when M < N, and
\* fails with 'Not all parameters were used by <template>' when M > N.
C7_PositionalOneToOne ==
    (BindDone /\ bparams.t = "array") =>
        LET N == Cardinality(OpenMarks(btext))
            M == Len(bparams.items)
        IN  /\ M = N => bres[1] = Ok(PositionalExpected(btext, bparams.items))
            /\ M < N => bres[1] = Throw("Cannot find parameter with index", <<DecDigits[M + 1]>>)
            /\ M > N => bres[1] = Throw("Not all parameters were used by", btext)

\* C7 witness: two parameters bound around a quoted '?'.
C7_Witness ==
    /\ btext = <<"?", Quote, "?", Quote, "?">>
    /\ bparams = Arr(<<Num(12), Str(<<Quote, "?">>)>>)
    /\ bres = <<Ok(<<"1", "2", Quote, "?", Quote, Quote, Quote, Quote, "?", Quote>>)>>

\* The named placeholders of a template: a sigil followed by at least one
\* word character; the placeholder runs to the last word character.
TokenStarts(t) == {i \in 1..(Len(t) - 1) : t[i] \in Sigils /\ t[i + 1] \in WordChars}
TokenEnd(t, i) ==
    CHOOSE e \in (i + 1)..Len(t) :
        /\ \A j \in (i + 1)..e : t[j] \in WordChars
        /\ e = Len(t) \/ t[e + 1] \notin WordChars
TokenKey(t, i) == SubSeq(t, i + 1, TokenEnd(t, i))
OpenTokens(t) == {i \in TokenStarts(t) : Outside(t, i)}
InOpenToken(t, i) == \E s \in OpenTokens(t) : s < i /\ i <= TokenEnd(t, s)

NamedExpected(t, props) ==
    Concat([i \in 1..Len(t) |->
               IF i \in OpenTokens(t) THEN formatParam(props[TokenKey(t, i)])
               ELSE IF InOpenToken(t, i) THEN <<>>
               ELSE <<t[i]>>])

MissingTokens(t, props) == {i \in OpenTokens(t) : TokenKey(t, i) \notin DOMAIN props}
Least(S) == CHOOSE i \in S : \A j \in S : i <= j

\* C8 (as claimed): every placeholder outside quotes is replaced by
\* formatParam of the mapping's value; binding fails with 'Cannot find
\* parameter with key "<name>"' for the first placeholder whose identifier
\* the mapping does not hold; entries no placeholder uses never matter.
C8_NamedBinding ==
    (BindDone /\ bparams.t = "object") =>
        LET missing == MissingTokens(btext, bparams.props) IN
        IF missing = {}
        THEN bres[1] = Ok(NamedExpected(btext, bparams.props))
        ELSE bres[1] = Throw("Cannot find parameter with key", TokenKey(btext, Least(missing)))

\* The placeholder-shaped tokens of the mode in use.
Tokens(t, params) == IF params.t = "array" THEN {i \in 1..Len(t) : t[i] = "?"} ELSE TokenStarts(t)

\* C9: a template whose every placeholder-shaped token follows an odd number
\* of quotes binds to itself and consumes nothing (no parameter of a list
\* may be left, no key of a mapping is looked up); when a token follows an
\* even number of quotes the result is never the template; an error of the
\* binder is never about a quoted token; and bindParams("c = '?'", [])
\* returns "c = '?'".
C9_QuoteParity ==
    BindDone =>
        LET open == {i \in Tokens(btext, bparams) : Outside(btext, i)} IN
        /\ (open = {} /\ (bparams.t = "array" => bparams.items = <<>>)) => bres[1] = Ok(btext)
        /\ open # {} => bres[1] # Ok(btext)
        /\ (bparams.t = "array" /\ ~bres[1].thrown) => Len(bparams.items) = Cardinality(open)
        /\ (bres[1].thrown /\ bres[1].error.msg = "Cannot find parameter with index")
              => \E k \in 0..(Cardinality(open) - 1) : bres[1].error.arg = <<DecDigits[k + 1]>>
        /\ (bres[1].thrown /\ bres[1].error.msg = "Cannot find parameter with key")
              => \E i \in open : bres[1].error.arg = TokenKey(btext, i)

\* C9 witness: the round trip of the quoted '?'.
C9_Witness ==
    /\ btext = <<"c", " ", "=", " ", Quote, "?", Quote>>
    /\ bparams = Arr(<<>>)
    /\ bres = <<Ok(btext)>>

\* The value of a decimal digit, of a lowercase hexadecimal digit.
DecValue(c) == (CHOOSE d \in 1..10 : DecDigits[d] = c) - 1
HexValue(c) == (CHOOSE d \in 1..16 : HexDigits[d] = c) - 1
IsDec(c) == \E d \in 1..10 : DecDigits[d] = c
IsHex(c) == \E d \in 1..16 : HexDigits[d] = c

\* The number a text of decimal digits denotes.
RECURSIVE DecNumber(_)
DecNumber(ds) ==
    IF ds = <<>> THEN 0 ELSE 10 * DecNumber(SubSeq(ds, 1, Len(ds) - 1)) + DecValue(ds[Len(ds)])

\* text is the decimal text of n: an optional minus sign exactly when n is
\* negative, digits only, no leading zero, denoting n.
IsDecimalOf(text, n) ==
    LET digits == IF n < 0 THEN Tail(text) ELSE text IN
    /\ n < 0 => (text # <<>> /\ Head(text) = "-")
    /\ digits # <<>>
    /\ \A i \in 1..Len(digits) : IsDec(digits[i])
    /\ Len(digits) > 1 => digits[1] # "0"
    /\ DecNumber(digits) = (IF n < 0 THEN 0 - n ELSE n)

\* text is s in single quotes with every quote of s doubled and nothing else
\* changed: character i of s stands after the opening quote and the
\* characters before it, each quote before it counted twice.
IsQuotedOf(text, s) ==
    LET at(i) == 1 + i + QuotesBefore(s, i)
        quotes == Cardinality({i \in 1..Len(s) : s[i] = Quote})
    IN  /\ Len(text) = Len(s) + quotes + 2
        /\ text[1] = Quote
        /\ text[Len(text)] = Quote
        /\ \A i \in 1..Len(s) :
              /\ text[at(i)] = s[i]
              /\ s[i] = Quote => text[at(i) + 1] = Quote

\* text is x' then two lowercase hexadecimal digits per byte of b, then '.
IsBlobOf(text, b) ==
    /\ Len(text) = 2 * Len(b) + 3
    /\ text[1] = "x" /\ text[2] = Quote /\ text[Len(text)] = Quote
    /\ \A i \in 1..Len(b) :
          /\ IsHex(text[2 * i + 1]) /\ IsHex(text[2 * i + 2])
          /\ 16 * HexValue(text[2 * i + 1]) + HexValue(text[2 * i + 2]) = b[i]

FormatDone == fres # <<>>

\* C10: formatParam gives NULL for null, the bare word true or false for a
\* boolean, its decimal text for a number, the quoted text with doubled
\* quotes for a text and the blob literal in lowercase hexadecimal for a byte
\* sequence; every parameter has a result.
C10_LiteralFormatting ==
    FormatDone =>
        CASE fparam.t = "null" -> fres[1] = <<"N", "U", "L", "L">>
          [] fparam.t = "boolean" ->
                fres[1] = (IF fparam.v THEN <<"t", "r", "u", "e">> ELSE <<"f", "a", "l", "s", "e">>)
          [] fparam.t = "number" -> IsDecimalOf(fres[1], fparam.v)
          [] fparam.t = "string" -> IsQuotedOf(fres[1], fparam.v)
          [] fparam.t = "Uint8Array" -> IsBlobOf(fres[1], fparam.v)
          [] OTHER -> FALSE

\* C10 witness: a text with a quote in it has been formatted.
C10_Witness ==
    /\ fparam = Str(<<"a", Quote>>)
    /\ fres = << <<Quote, "a", Quote, Quote, Quote>> >>

-----------------------------------------------------------------------------
(* C11..C19: the life of the session, its calls and its child *)

\* The operations that tear the process down, in the order claimed.
Teardown == <<"stdin.close", "stdout.close", "status", "close">>

StartupFailedMsg == "Sqlite startup failed"

\* The step in which create settles on the line it read.
CreateSettles == shell.pc = "starting" /\ shell'.pc # "starting"

\* What create does when it does not return a session: it closes the input
\* pipe, then the output pipe, and awaits the exit; only after the exit has
\* been awaited and the handle released does it fail, and no session exists
\* on which a call could be made.
StartupTeardown ==
    /\ (CreateSettles /\ shell'.pc # "created")
          => /\ shell'.pc = "failing"
             /\ shell'.error = NoError
             /\ ops' = SubSeq(Teardown, 1, 2)
             /\ process'.stdin = "closed" /\ process'.stdout = "closed"
    /\ (shell.pc = "failing" /\ shell'.pc # "failing")
          => /\ process.exited
             /\ ops' = Teardown
             /\ shell' = [pc |-> "failed", error |-> [msg |-> StartupFailedMsg, arg |-> <<>>]]
    /\ shell'.pc # "created" => (~executing' /\ \A g \in Calls : pc'[g] = "new")

\* C11 (as claimed): create takes one line from the child's output and
\* returns an idle session only if that line is the sentinel '*'; on any
\* other line, or when the output ends with no line, it tears the process
\* down in order before it fails with 'Sqlite startup failed', and no
\* session is returned.
C11_StartupHandshake ==
    [][/\ CreateSettles =>
             (shell'.pc = "created" <=> (stdout # <<>> /\ Head(stdout) = Sentinel))
       /\ (CreateSettles /\ shell'.pc = "created")
             => (~executing' /\ stdout' = Tail(stdout) /\ UNCHANGED <<process, ops>>)
       /\ StartupTeardown
      ]_vars

\* The line is the sentinel with white space around it.
IsPaddedSentinel(line) ==
    \E k \in 1..Len(line) :
        /\ line[k] = "*"
        /\ \A j \in 1..Len(line) : j # k => line[j] \in {" ", "\t", "\r"}

\* C11 (amended): create returns an idle session exactly when the line it
\* read is the sentinel '*' once the white space around it is removed; in
\* every other case it tears the process down in order before it fails with
\* 'Sqlite startup failed', and no session is returned.
C11_StartupHandshakeTrimmed ==
    [][/\ CreateSettles =>
             (shell'.pc = "created" <=> (stdout # <<>> /\ IsPaddedSentinel(Head(stdout))))
       /\ (CreateSettles /\ shell'.pc = "created")
             => (~executing' /\ stdout' = Tail(stdout) /\ UNCHANGED <<process, ops>>)
       /\ StartupTeardown
      ]_vars

\* C11 witness: the child printed a line that is not the sentinel, and
\* create has failed after the teardown.
C11_Witness ==
    /\ shell = [pc |-> "failed", error |-> [msg |-> StartupFailedMsg, arg |-> <<>>]]
    /\ ops = Teardown
    /\ process.code \in {0, 1} /\ process.exited
    /\ \A g \in Calls : pc[g] = "new"

\* close() has ended, by returning or by throwing.
Closed == closer.pc \in {"returned", "thrown"}

AbnormalExitMsg == "SQLite exited with status:"

\* C12: close() closes the input pipe, then the output pipe, then awaits
\* the exit, then releases the handle, and does nothing else to the process;
\* it ends only after the child has exited; it throws 'SQLite exited with
\* status: <code>' exactly when the code is not zero, with the decimal text
\* of the code, and the exit has been awaited and the handle released by
\* then.
C12_Shutdown ==
    [][/\ (closer.pc = "none" /\ closer'.pc # "none")
             => /\ closer' = [pc |-> "awaiting", error |-> NoError]
                /\ ops' = ops \o SubSeq(Teardown, 1, 2)
                /\ process'.stdin = "closed" /\ process'.stdout = "closed"
       /\ (closer.pc = "awaiting" /\ closer'.pc # "awaiting")
             => /\ process.exited
                /\ ops' = ops \o SubSeq(Teardown, 3, 4)
                /\ ops' = Teardown
                /\ closer'.pc = (IF process.code # 0 THEN "thrown" ELSE "returned")
                /\ closer'.pc = "thrown"
                      => /\ closer'.error.msg = AbnormalExitMsg
                         /\ IsDecimalOf(closer'.error.arg, process.code)
                /\ closer'.pc = "returned" => closer'.error = NoError
       /\ Closed => UNCHANGED <<closer, ops, process>>
      ]_vars

\* C12 witness: close() has thrown the code 1 after the whole teardown.
C12_Witness ==
    /\ closer = [pc |-> "thrown", error |-> [msg |-> AbnormalExitMsg, arg |-> <<"1">>]]
    /\ process.exited /\ process.code = 1
    /\ ops = Teardown

\* The step in which call g is turned away by the busy check.
Rejects(g) == pc[g] = "new" /\ pc'[g] = "done" /\ outcome'[g].error.msg = AlreadyExecutingMsg

\* The fragments of a statement's whole output.
Fragments(out) == [k \in 1..Len(out) |-> Fragment(out[k], k)]

\* C13: the step that rejects a call leaves the child's input and output,
\* the busy flag (still set) and every other call as they were, the rejected
\* call having read and yielded nothing; and a call that was in flight when
\* another was rejected ends, on a stream holding nothing of an earlier
\* statement, with exactly the fragments of its own statement's output.
C13_RejectionChangesNothing ==
    [][\A g \in Calls :
          /\ Rejects(g)
                => /\ executing /\ executing'
                   /\ UNCHANGED <<stdin, stdout, own>>
                   /\ lines'[g] = <<>> /\ frags'[g] = <<>> /\ nread'[g] = 0
                   /\ \A h \in Calls \ {g} :
                         /\ pc'[h] = pc[h] /\ kind'[h] = kind[h] /\ outcome'[h] = outcome[h]
                         /\ lines'[h] = lines[h] /\ frags'[h] = frags[h] /\ nread'[h] = nread[h]
          /\ (Rejected(g)' /\ \E h \in Calls : h < g /\ Exhausted(h)' /\ CleanStream(h)')
                => \A h \in Calls :
                      (h < g /\ Exhausted(h)' /\ CleanStream(h)') => frags'[h] = Fragments(own'[h])
      ]_vars

\* C13 witness: the second call was rejected while the first was in flight,
\* and the first went on to yield both rows of its statement.
C13_Witness ==
    /\ Rejected(2) /\ kind[2] = "queryRaw"
    /\ Exhausted(1) /\ own[1] = JsonLines(1, 2)
    /\ frags[1] = <<RowText(1, 1), RowText(1, 2)>>

\* The text the binder is claimed to return for a request (C7, C8).
BoundText(r) ==
    IF r.params.t = "undefined" THEN r.text
    ELSE IF r.params.t = "array" THEN PositionalExpected(r.text, r.params.items)
    ELSE NamedExpected(r.text, r.params.props)

\* The step in which call g ends with an error of the binder.
BindingFails(g) == pc[g] = "new" /\ pc'[g] = "done" /\ outcome'[g].error.msg \in BindingMsgs

\* C14: the step in which the binder fails leaves the child's input and
\* output as they were, and the call has read no line then or later; the
\* child's input grows only by the one frame of a call that passes the busy
\* check and the binder, the frame is the bound text followed by
\* ';\n.print *\n', it is written in the call's first step, and a call takes
\* a line only after that step.
C14_BindingPrecedesIO ==
    [][\A g \in Calls :
          /\ BindingFails(g) => UNCHANGED <<stdin, stdout>>
          /\ BindingFailed(g)' => (lines'[g] = <<>> /\ nread'[g] = 0 /\ frags'[g] = <<>>)
          /\ (pc[g] = "new" /\ pc'[g] = "reading")
                => /\ Len(stdin') = Len(stdin) + 1
                   /\ SubSeq(stdin', 1, Len(stdin)) = stdin
                   /\ stdin'[Len(stdin')].call = g
                   /\ stdin'[Len(stdin')].bytes =
                         BoundText(stdin'[Len(stdin')].request)
                            \o <<";", "\n", ".", "p", "r", "i", "n", "t", " ", "*", "\n">>
                   /\ lines'[g] = <<>>
          /\ Len(stdin') > Len(stdin) => \E h \in Calls : pc[h] = "new" /\ pc'[h] = "reading"
          /\ lines'[g] # lines[g] => pc[g] = "reading"
      ]_vars

\* C14 witness: the first call wrote its frame and read its row and
\* sentinel; the second, a queryAll, failed in the binder with the child's
\* input and output empty.
C14_Witness ==
    /\ Exhausted(1) /\ lines[1] = JsonLines(1, 1)
    /\ BindingFailed(2) /\ kind[2] = "queryAll" /\ lines[2] = <<>>
    /\ stdin = <<>> /\ stdout = <<>>

\* The step in which the execute of call g returns.
ExecuteReturns(g) ==
    kind[g] = "execute" /\ pc[g] # "done" /\ pc'[g] = "done" /\ outcome'[g].how = "returned"

\* C15 (as claimed): when an execute returns, whether the earlier sequences
\* were exhausted or abandoned early, the child has executed its statement,
\* the lines it took from the child's output are the lines of its own
\* statement up to the sentinel, and the busy flag is clear.
C15_ExecuteDrains ==
    [][\A g \in Calls :
          (/\ ExecuteReturns(g)
           /\ \A h \in Calls : h < g =>
                 (Exhausted(h) \/ Abandoned(h) \/ Rejected(h) \/ BindingFailed(h)))
              => /\ \A i \in 1..Len(stdin') : stdin'[i].call # g
                 /\ lines'[g] = own'[g]
                 /\ executing' = FALSE
      ]_vars

\* The text is a JSON object as the child prints a row: braces around
\* digits.
IsRow(text) ==
    /\ Len(text) >= 2
    /\ text[1] = "{" /\ text[Len(text)] = "}"
    /\ \A i \in 2..(Len(text) - 1) : IsDec(text[i])

Decoding(g) == kind[g] \in {"query", "queryAll"}
MalformedRow(g) == pc[g] = "done" /\ outcome[g].error.msg = "SyntaxError"

\* C16: a query or queryAll takes the fragments one at a time; the step
\* that follows a fragment that is no JSON row raises the decode error with
\* that fragment and clears the busy flag, taking no further line; every
\* fragment before the failing one is a JSON row, as is every fragment of a
\* call that has not failed; and after the error the call yields nothing
\* more.
C16_MalformedRow ==
    [][\A g \in Calls :
          /\ (Decoding(g) /\ pc[g] = "yielded" /\ ~IsRow(frags[g][Len(frags[g])])
                /\ pc'[g] # pc[g])
                => /\ pc'[g] = "done"
                   /\ outcome'[g] =
                         Outcome("thrown", [msg |-> "SyntaxError", arg |-> frags[g][Len(frags[g])]])
                   /\ executing' = FALSE
                   /\ frags'[g] = frags[g] /\ lines'[g] = lines[g]
          /\ (Decoding(g) /\ pc[g] = "yielded" /\ IsRow(frags[g][Len(frags[g])]))
                => ~MalformedRow(g)'
          /\ Decoding(g)' =>
                \A i \in 1..Len(frags'[g]) :
                    (i < Len(frags'[g]) \/ pc'[g] = "reading" \/ Exhausted(g)' \/ Abandoned(g)')
                        => IsRow(frags'[g][i])
          /\ MalformedRow(g) => (pc'[g] = "done" /\ frags'[g] = frags[g] /\ outcome'[g] = outcome[g])
      ]_vars

\* C16 witness: a queryAll decoded the row of its statement, failed on the
\* text that followed it, and left the flag clear.
C16_Witness ==
    \E g \in Calls :
        /\ kind[g] = "queryAll" /\ MalformedRow(g)
        /\ own[g] = MixedLines(g)
        /\ frags[g] = <<RowText(g, 1), <<"o", "k">> >>
        /\ outcome[g].error.arg = <<"o", "k">>
        /\ ~executing

\* C17 (as claimed): while a call is in flight (flag set, sentinel not
\* read) close() is not between closing the pipes and the end of its wait
\* for the exit, and both pipes are open.
C17_ShutdownDoesNotOverlap ==
    \A g \in Calls :
        (executing /\ InFlight(g))
            => /\ closer.pc # "awaiting"
               /\ process.stdin = "open" /\ process.stdout = "open"

\* C18 (as claimed): once close() has ended, by returning or by throwing, a
\* call made on the session does not set the busy flag and does not go on
\* to write its frame or read the child's output.
C18_ClosedIsTerminal ==
    [][\A g \in Calls :
          (Closed /\ pc[g] = "new" /\ pc'[g] # "new")
              => /\ executing' = executing
                 /\ pc'[g] = "done"
      ]_vars

\* The child's output has ended under the read loop of call g.
StreamEnded(g) ==
    pc[g] = "reading" /\ process.exited /\ process.stdout = "open" /\ stdout = <<>>

\* C19: when the child has exited and nothing of its output is left, the
\* read loop of a call ends: the call returns, having yielded one fragment
\* per line it read, and the busy flag is cleared; the exit code stays what
\* it was, and it is the code close() then throws; and once the stream has
\* ended under a call, a state follows in which no call is reading.
C19_EndOfStream ==
    /\ [][\A g \in Calls :
             /\ (StreamEnded(g) /\ pc'[g] # pc[g])
                   => /\ Exhausted(g)'
                      /\ executing' = FALSE
                      /\ frags'[g] = frags[g] /\ Len(frags[g]) = Len(lines[g])
                      /\ UNCHANGED <<process, closer, stdin, stdout>>
             /\ process.exited => (process'.exited /\ process'.code = process.code)
             /\ (Exhausted(g) /\ closer'.pc = "thrown")
                   => IsDecimalOf(closer'.error.arg, process.code)
         ]_vars
    /\ (\E g \in Calls : StreamEnded(g)) ~> (\A g \in Calls : pc[g] # "reading")

\* C19 witness: an execute of '.exit 1' has returned with nothing read,
\* the flag is clear, and close() has thrown the code 1.
C19_Witness ==
    /\ kind[1] = "execute" /\ Exhausted(1) /\ lines[1] = <<>> /\ own[1] = <<>>
    /\ ~executing
    /\ process.exited /\ process.code = 1
    /\ closer.pc = "thrown" /\ closer.error.arg = <<"1">>
    /\ pc[2] = "new"

-----------------------------------------------------------------------------
(* C20: the binder scans the template only *)

\* The literal a named placeholder gets: formatParam of the mapping's value,
\* and NULL for an identifier found elsewhere than among the mapping's own
\* entries.
NamedLiteral(props, key) ==
    IF key \in DOMAIN props THEN formatParam(props[key]) ELSE <<"N", "U", "L", "L">>

\* The template with every named placeholder outside quotes replaced by its
\* literal, whole.
NamedSubstituted(t, props) ==
    Concat([i \in 1..Len(t) |->
               IF i \in OpenTokens(t) THEN NamedLiteral(props, TokenKey(t, i))
               ELSE IF InOpenToken(t, i) THEN <<>>
               ELSE <<t[i]>>])

\* C20: the positions substituted are those of the placeholders that follow
\* an even number of quotes in the template, whatever the parameters hold:
\* a list binds exactly when it has as many values as the template has such
\* '?', and whenever a list or a mapping binds, the result is the template
\* with each of those placeholders replaced by the whole literal of its
\* value and every other character as it was. So two parameter sets that
\* both bind give the same positions and the same text outside the
\* literals, and a quote, a '?' or a ':name' inside a value toggles nothing,
\* is not substituted and consumes no parameter.
C20_ValuesDoNotInfluenceScanning ==
    BindDone =>
        /\ bparams.t = "array"
              => /\ ~bres[1].thrown <=> Len(bparams.items) = Cardinality(OpenMarks(btext))
                 /\ ~bres[1].thrown => bres[1].text = PositionalExpected(btext, bparams.items)
        /\ (bparams.t = "object" /\ ~bres[1].thrown)
              => bres[1].text = NamedSubstituted(btext, bparams.props)

\* C20 witness: a value that holds a quote and a ':a' was bound twice, and
\* the second placeholder was still found.
C20_Witness ==
    /\ btext = <<":", "a", " ", ":", "a">>
    /\ \E props \in [{<<"a">>} -> {Str(<<"a", Quote, ":", "a">>)}] : bparams = Obj(props)
    /\ bres = <<Ok(<<Quote, "a", Quote, Quote, ":", "a", Quote, " ",
                     Quote, "a", Quote, Quote, ":", "a", Quote>>)>>

====
